---- MODULE Spec2Model ----
(***************************************************************************)
(* kmodel serialization (gencode) and the page planner (write_pages) of    *)
(* the nncase code generator, src/unnamed/part_000, with the page types    *)
(* and limits of src/src/common/include/runtime/paging.h.                  *)
(*                                                                         *)
(* The output file is modelled by the log of the writes made to it: each   *)
(* entry says what was written, at which byte offset and how many bytes.   *)
(* Node indices in pages are 0-based as in the code; TLA+ sequences are    *)
(* 1-based, so headers[node] of the code is headers[node + 1] here.        *)
(* Body sizes stay far below 2^32, so the (uint32_t) cast of line 231 and  *)
(* the uint64_t sums of write_pages never wrap in the explored range.      *)
(***************************************************************************)
EXTENDS Integers, Sequences, FiniteSets, TLC

VARIABLES
    g_emitters,           \* opcodes with a registered emitter
    g_disabled_emitters,  \* opcodes disabled with disable_emitter
    pc,                   \* position of the one running call
    compute_sequence,     \* gencode's argument: sequence of nodes
    constant_usage,       \* context.constant_usage()
    runtime_nodes,        \* gencode local
    inputs,               \* number of entries of gencode's inputs vector
    outputs,              \* number of entries of gencode's outputs vector
    constants,            \* number of entries of gencode's constants vector
    model_header,         \* the model_header record gencode fills
    pos,                  \* writer.position()
    file,                 \* log of the writes made to the output stream
    node_headers,         \* gencode local / write_pages argument
    headers_storage,      \* the storage of that vector: whether it owns any and
                          \* the body_size lying in its first slot
    node_headers_pos,     \* gencode local
    reserved_end,         \* position gencode seeks to at line 219
    next_node,            \* index (0-based) into runtime_nodes of the body loop
    end_pos,              \* gencode local
    pages,                \* write_pages local: the pages vector
    table                 \* the memory_page_table written, or NoTable

vars == <<g_emitters, g_disabled_emitters, pc, compute_sequence, constant_usage,
          runtime_nodes, inputs, outputs, constants, model_header, pos, file,
          node_headers, headers_storage, node_headers_pos, reserved_end,
          next_node, end_pos, pages, table>>

----------------------------------------------------------------------------
(* Program constants *)

KM_ENABLE_PAGING == 2
KM_NODE_PAGING == 2
KM_MAX_PAGES == 8
TARGET_PAGE_SIZE == 2300000

SizeofMemoryPage == 32
SizeofMemoryPageTable == 16
SizeofNodeHeader == 8
SizeofModelHeader == 36
SizeofMemoryRange == 16
SizeofRuntimeShape == 16

(* Bounds of the exploration *)

MaxSeqLen == 3
MaxHeaders == 10
MaxConstants == 3

Opcodes == {"op_input_node", "op_output_node", "op_constant", "op_conv2d"}

\* the nodes a compute sequence is drawn from; raw is the number of bytes the
\* node's emitter serializes for it; a constant node has its literal data and
\* the start of its allocation in the constant pool (the allocation is as long
\* as the data)
Nodes == {[op |-> "op_input_node", raw |-> 0, start |-> 0, data |-> <<>>],
          [op |-> "op_output_node", raw |-> 0, start |-> 0, data |-> <<>>],
          [op |-> "op_constant", raw |-> 0, start |-> 1, data |-> <<7>>],
          [op |-> "op_conv2d", raw |-> 5, start |-> 0, data |-> <<>>],
          [op |-> "op_conv2d", raw |-> 1499997, start |-> 0, data |-> <<>>]}

ConstUsages == {2, 4}

\* the constant nodes and pool sizes of the sequences that hold constants only
ConstantNodes == {[op |-> "op_constant", raw |-> 0, start |-> st, data |-> d] :
                     st \in 0..3, d \in {<<1>>, <<2, 3>>}}
ConstPoolSizes == {3, 4}

\* body sizes of the headers handed to write_pages when it is called directly
PageSizes == {1000000, 1300000, 2400000}

\* sizes that may lie in the first slot of the storage of an empty vector
StaleSizes == {0, 777, 2400000}

\* a vector that never allocated (data() is null), and one that owns storage
\* whose first slot holds the body_size v
NoStorage == [allocated |-> FALSE, slot0 |-> 0]
StorageWith(v) == [allocated |-> TRUE, slot0 |-> v]

NoTable == [num_pages |-> 0, max_pages |-> 0, body_buffer_size |-> 0]
NoHeader == [flags |-> 0, constants |-> 0, nodes |-> 0, inputs |-> 0, outputs |-> 0]

SeqsUpTo(S, n) == UNION {[1..k -> S] : k \in 0..n}

----------------------------------------------------------------------------
(* Helpers *)

RECURSIVE BitAnd(_, _)
BitAnd(a, b) ==
    IF a = 0 \/ b = 0 THEN 0
    ELSE (IF a % 2 = 1 /\ b % 2 = 1 THEN 1 ELSE 0) + 2 * BitAnd(a \div 2, b \div 2)

BitOr(a, b) == a + b - BitAnd(a, b)

Max(a, b) == IF a >= b THEN a ELSE b

\* binary_writer::align_position(alignment)
align_position(p, alignment) ==
    IF p % alignment = 0 THEN p ELSE p + (alignment - (p % alignment))

RECURSIVE CountOp(_, _)
CountOp(seq, op) ==
    IF seq = <<>> THEN 0
    ELSE (IF Head(seq).op = op THEN 1 ELSE 0) + CountOp(Tail(seq), op)

\* one write: what is written, where, how many bytes, and the value written
\* (for the tables of memory ranges and shapes, the number of entries)
Written(what, at, len, item) == [what |-> what, at |-> at, len |-> len, item |-> item]

----------------------------------------------------------------------------
(* Emitter registry, lines 32-61 *)

\* faulty variant of call_emitter: a missing emitter yields no body instead of
\* the exception
call_emitter_null(node, emitters, disabled) ==
    IF node.op \in emitters THEN "body" ELSE "null"

\* call_emitter: "body" when the emitter is found (a registered emitter
\* returns the node_body it built), "throw" when the opcode is neither
\* registered nor disabled, "null" when it is only disabled

call_emitter(node, emitters, disabled) ==
    IF node.op \notin emitters
    THEN IF node.op \notin disabled THEN "throw" ELSE "null"
    ELSE "body"

register_emitter ==
    /\ pc = "idle"
    /\ UNCHANGED headers_storage
    /\ \E opcode \in Opcodes :
        /\ opcode \notin g_emitters
        /\ g_emitters' = g_emitters \cup {opcode}
    /\ UNCHANGED <<g_disabled_emitters, pc, compute_sequence, constant_usage,
                   runtime_nodes, inputs, outputs, constants, model_header, pos,
                   file, node_headers, node_headers_pos, reserved_end, next_node,
                   end_pos, pages, table>>

disable_emitter ==
    /\ pc = "idle"
    /\ UNCHANGED headers_storage
    /\ \E opcode \in Opcodes :
        /\ opcode \notin g_disabled_emitters
        /\ g_disabled_emitters' = g_disabled_emitters \cup {opcode}
    /\ UNCHANGED <<g_emitters, pc, compute_sequence, constant_usage,
                   runtime_nodes, inputs, outputs, constants, model_header, pos,
                   file, node_headers, node_headers_pos, reserved_end, next_node,
                   end_pos, pages, table>>

----------------------------------------------------------------------------
(* Page planner: write_pages, lines 79-142 *)

\* lines 83-90
first_page(size0) ==
    [index |-> 0, type |-> "persistent", begin |-> 0, end |-> 0,
     offset_bytes |-> 0, size_bytes |-> size0]

\* faulty variant of exceeds_target: the node's size alone is compared
exceeds_target_alone(current, body_size) == body_size > TARGET_PAGE_SIZE

\* faulty variant of exceeds_target: a page that reaches the target exactly is
\* taken to exceed it
exceeds_target_or_equal(current, body_size) ==
    body_size + current.size_bytes >= TARGET_PAGE_SIZE

\* line 94
exceeds_target(current, body_size) ==
    body_size + current.size_bytes > TARGET_PAGE_SIZE

\* faulty variant of new_page: the page opened is persistent
new_page_persistent(current, node, body_size) ==
    [index |-> current.index + 1, type |-> "persistent", begin |-> node,
     end |-> node, offset_bytes |-> current.offset_bytes + current.size_bytes,
     size_bytes |-> body_size]

\* faulty variant of new_page: the offset of the page before is kept
new_page_stale_offset(current, node, body_size) ==
    [index |-> current.index + 1, type |-> "swap", begin |-> node, end |-> node,
     offset_bytes |-> current.offset_bytes, size_bytes |-> body_size]

\* lines 97-104
new_page(current, node, body_size) ==
    [index |-> current.index + 1, type |-> "swap", begin |-> node, end |-> node,
     offset_bytes |-> current.offset_bytes + current.size_bytes,
     size_bytes |-> body_size]

\* faulty variant of extend_page: end is not moved
extend_page_keep_end(current, node, body_size) ==
    [current EXCEPT !.size_bytes = @ + body_size]

\* lines 107-108
extend_page(current, node, body_size) ==
    [current EXCEPT !.end = node, !.size_bytes = @ + body_size]

\* lines 93-113: the loop from index node on, then the commit of the last page
RECURSIVE greedy_pass(_, _, _, _)
greedy_pass(headers, node, current, committed) ==
    IF node >= Len(headers) THEN Append(committed, current)
    ELSE LET body_size == headers[node + 1].body_size IN
         IF exceeds_target(current, body_size)
         THEN greedy_pass(headers, node + 1, new_page(current, node, body_size),
                          Append(committed, current))
         ELSE greedy_pass(headers, node + 1,
                          extend_page(current, node, body_size), committed)

\* faulty variant of pages_fit: off by one
pages_fit_one_more(ps) == Len(ps) <= KM_MAX_PAGES + 1

\* line 115: the assertion, taken as compiled in (without NDEBUG)
pages_fit(ps) == Len(ps) <= KM_MAX_PAGES

\* faulty variant of working_size_of: the swap pages are summed
RECURSIVE working_size_sum_swaps(_, _, _)
working_size_sum_swaps(ps, working_size, largest_swap) ==
    IF ps = <<>> THEN working_size + largest_swap
    ELSE IF Head(ps).type = "persistent"
         THEN working_size_sum_swaps(Tail(ps), working_size + Head(ps).size_bytes,
                                     largest_swap)
         ELSE working_size_sum_swaps(Tail(ps), working_size,
                                     largest_swap + Head(ps).size_bytes)

\* lines 117-126
RECURSIVE working_size_of(_, _, _)
working_size_of(ps, working_size, largest_swap) ==
    IF ps = <<>> THEN working_size + largest_swap
    ELSE IF Head(ps).type = "persistent"
         THEN working_size_of(Tail(ps), working_size + Head(ps).size_bytes,
                              largest_swap)
         ELSE working_size_of(Tail(ps), working_size,
                              Max(largest_swap, Head(ps).size_bytes))

\* lines 128-132
make_table(ps) ==
    [num_pages |-> Len(ps), max_pages |-> KM_MAX_PAGES,
     body_buffer_size |-> working_size_of(ps, 0, 0)]

\* faulty variant of page_writes: the pages are written before the table
page_writes_pages_first(ps, p) ==
    [k \in 1..Len(ps) |->
        Written("page", p + (k - 1) * SizeofMemoryPage, SizeofMemoryPage, ps[k])]
    \o <<Written("page_table", p + Len(ps) * SizeofMemoryPage,
                 SizeofMemoryPageTable, make_table(ps))>>

\* lines 135-140: the table first, then the pages, from position p on
page_writes(ps, p) ==
    <<Written("page_table", p, SizeofMemoryPageTable, make_table(ps))>> \o
    [k \in 1..Len(ps) |->
        Written("page", p + SizeofMemoryPageTable + (k - 1) * SizeofMemoryPage,
                SizeofMemoryPage, ps[k])]

\* Line 89, the read of headers[0].body_size.  With an element it yields that
\* element's body_size.  On an empty vector the read is out of bounds: a
\* library built with bounds assertions aborts; otherwise a vector that never
\* allocated is read through a null pointer and the process dies, and a vector
\* that owns storage yields whatever lies in its first slot.
read_first_body_size(headers, storage) ==
    IF Len(headers) > 0
    THEN {[kind |-> "value", value |-> headers[1].body_size]}
    ELSE {[kind |-> "bounds_abort", value |-> 0]}
         \cup (IF storage.allocated
               THEN {[kind |-> "value", value |-> storage.slot0]}
               ELSE {[kind |-> "segfault", value |-> 0]})

\* The body of write_pages on the headers.  When the read of line 89 kills the
\* process nothing is written; otherwise the next state is the abort of the
\* assertion of line 115 or the state after the writes.
write_pages(headers, storage, next_pc) ==
    \E read \in read_first_body_size(headers, storage) :
        IF read.kind # "value"
        THEN /\ pc' = read.kind
             /\ UNCHANGED <<pages, table, file, pos>>
        ELSE LET ps == greedy_pass(headers, 1, first_page(read.value), <<>>)
             IN  /\ pages' = ps
                 /\ IF pages_fit(ps)
                    THEN /\ table' = make_table(ps)
                         /\ file' = file \o page_writes(ps, pos)
                         /\ pos' = pos + SizeofMemoryPageTable
                                       + Len(ps) * SizeofMemoryPage
                         /\ pc' = next_pc
                    ELSE /\ pc' = "assert_failed"
                         /\ UNCHANGED <<table, file, pos>>

\* a direct call of write_pages
call_write_pages ==
    /\ pc = "call_write_pages"
    /\ write_pages(node_headers, headers_storage, "returned")
    /\ UNCHANGED headers_storage
    /\ UNCHANGED <<g_emitters, g_disabled_emitters, compute_sequence,
                   constant_usage, runtime_nodes, inputs, outputs, constants,
                   model_header, node_headers, node_headers_pos, reserved_end,
                   next_node, end_pos>>

----------------------------------------------------------------------------
(* Model serializer: gencode, lines 144-248 *)

\* faulty variant of is_runtime_node: nothing is filtered
is_runtime_node_always(node, disabled) == TRUE

\* line 154
is_runtime_node(node, disabled) == node.op \notin disabled

\* lines 152-170: the classification loop, as the four vectors it fills
RECURSIVE select_runtime_nodes(_, _)
select_runtime_nodes(seq, disabled) ==
    IF seq = <<>> THEN <<>>
    ELSE (IF is_runtime_node(Head(seq), disabled) THEN <<Head(seq)>> ELSE <<>>)
         \o select_runtime_nodes(Tail(seq), disabled)

\* lines 176-189
make_model_header(cu, n_nodes, n_inputs, n_outputs, enable_paging) ==
    [flags |-> IF enable_paging THEN BitOr(0, KM_NODE_PAGING) ELSE 0,
     constants |-> cu, nodes |-> n_nodes, inputs |-> n_inputs,
     outputs |-> n_outputs]

\* line 217
page_bytes_of(flags) ==
    SizeofMemoryPage * KM_MAX_PAGES
        * (IF BitAnd(flags, KM_MAX_PAGES) # 0 THEN 1 ELSE 0)

\* faulty variant of node_body_size: the size is taken before the padding
node_body_size_unpadded(body_start, raw) == raw

\* lines 227-231: the header's body_size of a body of raw bytes written at
\* body_start
node_body_size(body_start, raw) ==
    align_position(body_start + raw, 8) - body_start

\* line 201: make_unique<uint8_t[]>(n) value-initializes the buffer
zero_buffer(n) == [k \in 1..n |-> 0]

\* faulty variant of copy_constant: the allocation offset is ignored
copy_constant_at_zero(mem, start, data) ==
    [k \in 1..Len(mem) |-> IF k <= Len(data) THEN data[k] ELSE mem[k]]

\* lines 204-207: std::copy of the data to const_mem + alloc.start (the copy
\* stays inside the buffer: the allocations lie within constant_usage)
copy_constant(mem, start, data) ==
    [k \in 1..Len(mem) |->
        IF k > start /\ k <= start + Len(data) THEN data[k - start] ELSE mem[k]]

\* lines 202-208: the loop over the constants vector
RECURSIVE fill_const_mem(_, _)
fill_const_mem(cs, mem) ==
    IF cs = <<>> THEN mem
    ELSE fill_const_mem(Tail(cs), copy_constant(mem, Head(cs).start, Head(cs).data))

IsConstant(node) == node.op = "op_constant"

\* lines 144-210: classify the nodes, then write the model header, the
\* input/output tables and the constant pool; the sequence is one of seqs and
\* the constant usage one of cus that covers the allocations of its constants
gencode_begin_from(seqs, cus) ==
    /\ pc = "idle"
    /\ UNCHANGED headers_storage
    /\ \E seq \in seqs, cu \in cus :
        LET rn == select_runtime_nodes(seq, g_disabled_emitters)
            n_in == CountOp(seq, "op_input_node")
            n_out == CountOp(seq, "op_output_node")
            n_const == CountOp(seq, "op_constant")
            p1 == SizeofModelHeader
            p2 == p1 + n_in * SizeofMemoryRange
            p3 == p2 + n_in * SizeofRuntimeShape
            p4 == p3 + n_out * SizeofMemoryRange
        IN  /\ \A i \in 1..Len(seq) :
                  IsConstant(seq[i]) => seq[i].start + Len(seq[i].data) <= cu
            /\ compute_sequence' = seq
            /\ constant_usage' = cu
            /\ runtime_nodes' = rn
            /\ inputs' = n_in
            /\ outputs' = n_out
            /\ constants' = n_const
            /\ model_header' = make_model_header(cu, Len(rn), n_in, n_out, TRUE)
            /\ file' = <<Written("model_header", 0, SizeofModelHeader,
                                 make_model_header(cu, Len(rn), n_in, n_out, TRUE)),
                         Written("inputs", p1, n_in * SizeofMemoryRange, n_in),
                         Written("input_shapes", p2, n_in * SizeofRuntimeShape, n_in),
                         Written("outputs", p3, n_out * SizeofMemoryRange, n_out),
                         Written("constants", p4, cu,
                                 fill_const_mem(SelectSeq(seq, IsConstant),
                                                zero_buffer(cu)))>>
            /\ pos' = p4 + cu
    /\ pc' = "reserve"
    /\ UNCHANGED <<g_emitters, g_disabled_emitters, node_headers,
                   node_headers_pos, reserved_end, next_node, end_pos, pages,
                   table>>

gencode_begin == gencode_begin_from(SeqsUpTo(Nodes, MaxSeqLen), ConstUsages)

\* the same lines on a sequence of constant nodes
gencode_begin_constants ==
    gencode_begin_from(SeqsUpTo(ConstantNodes, MaxConstants), ConstPoolSizes)

\* lines 212-219: remember where the node headers go and seek past the space
\* kept for them and for the pages
gencode_reserve ==
    /\ pc = "reserve"
    /\ LET node_header_bytes == SizeofNodeHeader * Len(runtime_nodes)
           page_bytes == page_bytes_of(model_header.flags)
       IN  /\ node_headers_pos' = pos
           /\ pos' = pos + node_header_bytes + page_bytes
           /\ reserved_end' = pos + node_header_bytes + page_bytes
    /\ node_headers' = <<>>
    /\ headers_storage' = NoStorage
    /\ next_node' = 0
    /\ pc' = "body"
    /\ UNCHANGED <<g_emitters, g_disabled_emitters, compute_sequence,
                   constant_usage, runtime_nodes, inputs, outputs, constants,
                   model_header, file, end_pos, pages, table>>

\* lines 222-233: one iteration of the body loop
gencode_emit_body ==
    /\ pc = "body"
    /\ next_node < Len(runtime_nodes)
    /\ LET node == runtime_nodes[next_node + 1]
           body == call_emitter(node, g_emitters, g_disabled_emitters)
       IN  IF body = "throw"
           THEN /\ pc' = "emitter_not_found"
                /\ UNCHANGED <<pos, file, node_headers, headers_storage,
                               next_node>>
           ELSE /\ pc' = "body"
                /\ next_node' = next_node + 1
                /\ IF body = "body"
                   THEN /\ file' = Append(file, Written("body", pos, node.raw, node.op))
                        /\ pos' = align_position(pos + node.raw, 8)
                        /\ node_headers' = Append(node_headers,
                               [opcode |-> node.op,
                                body_size |-> node_body_size(pos, node.raw)])
                        /\ headers_storage' =
                               IF Len(node_headers) = 0
                               THEN StorageWith(node_body_size(pos, node.raw))
                               ELSE headers_storage
                   ELSE UNCHANGED <<pos, file, node_headers, headers_storage>>
    /\ UNCHANGED <<g_emitters, g_disabled_emitters, compute_sequence,
                   constant_usage, runtime_nodes, inputs, outputs, constants,
                   model_header, node_headers_pos, reserved_end, end_pos, pages,
                   table>>

\* lines 235-238: after the loop, seek back and write the node headers
gencode_write_node_headers ==
    /\ pc = "body"
    /\ UNCHANGED headers_storage
    /\ next_node >= Len(runtime_nodes)
    /\ end_pos' = pos
    /\ file' = Append(file, Written("node_headers", node_headers_pos,
                                    SizeofNodeHeader * Len(node_headers),
                                    node_headers))
    /\ pos' = node_headers_pos + SizeofNodeHeader * Len(node_headers)
    /\ pc' = "pages"
    /\ UNCHANGED <<g_emitters, g_disabled_emitters, compute_sequence,
                   constant_usage, runtime_nodes, inputs, outputs, constants,
                   model_header, node_headers, node_headers_pos, reserved_end,
                   next_node, pages, table>>

\* lines 240-243
gencode_write_pages ==
    /\ pc = "pages"
    /\ UNCHANGED headers_storage
    /\ IF BitAnd(model_header.flags, KM_NODE_PAGING) # 0
       THEN write_pages(node_headers, headers_storage, "finish")
       ELSE /\ pc' = "finish"
            /\ UNCHANGED <<pages, table, file, pos>>
    /\ UNCHANGED <<g_emitters, g_disabled_emitters, compute_sequence,
                   constant_usage, runtime_nodes, inputs, outputs, constants,
                   model_header, node_headers, node_headers_pos, reserved_end,
                   next_node, end_pos>>

\* faulty variant of gencode_finish: the writer stays behind the page entries
gencode_finish_no_seek ==
    /\ pc = "finish"
    /\ UNCHANGED headers_storage
    /\ pc' = "done"
    /\ UNCHANGED <<g_emitters, g_disabled_emitters, compute_sequence,
                   constant_usage, runtime_nodes, inputs, outputs, constants,
                   model_header, pos, file, node_headers, node_headers_pos,
                   reserved_end, next_node, end_pos, pages, table>>

\* line 245
gencode_finish ==
    /\ pc = "finish"
    /\ UNCHANGED headers_storage
    /\ pos' = end_pos
    /\ pc' = "done"
    /\ UNCHANGED <<g_emitters, g_disabled_emitters, compute_sequence,
                   constant_usage, runtime_nodes, inputs, outputs, constants,
                   model_header, file, node_headers, node_headers_pos,
                   reserved_end, next_node, end_pos, pages, table>>

----------------------------------------------------------------------------
(* Specifications *)

\* the process before any call of gencode: empty registry, nothing written
Init ==
    /\ g_emitters = {}
    /\ g_disabled_emitters = {}
    /\ pc = "idle"
    /\ compute_sequence = <<>>
    /\ constant_usage = 0
    /\ runtime_nodes = <<>>
    /\ inputs = 0
    /\ outputs = 0
    /\ constants = 0
    /\ model_header = NoHeader
    /\ pos = 0
    /\ file = <<>>
    /\ node_headers = <<>>
    /\ headers_storage = NoStorage
    /\ node_headers_pos = 0
    /\ reserved_end = 0
    /\ next_node = 0
    /\ end_pos = 0
    /\ pages = <<>>
    /\ table = NoTable

Next ==
    \/ register_emitter
    \/ disable_emitter
    \/ gencode_begin
    \/ gencode_reserve
    \/ gencode_emit_body
    \/ gencode_write_node_headers
    \/ gencode_write_pages
    \/ gencode_finish

Spec == Init /\ [][Next]_vars

\* write_pages called on its own with a writer at position 0 and any vector
\* of node headers: one with elements, or an empty one that never allocated
\* or that owns storage
HeaderVectors ==
    {[headers |-> [k \in 1..Len(sz) |-> [opcode |-> "op_conv2d",
                                         body_size |-> sz[k]]],
      storage |-> StorageWith(sz[1])] :
         sz \in SeqsUpTo(PageSizes, MaxHeaders) \ {<<>>}}
    \cup {[headers |-> <<>>, storage |-> st] :
             st \in {NoStorage} \cup {StorageWith(v) : v \in StaleSizes}}

PageInit ==
    /\ g_emitters = {}
    /\ g_disabled_emitters = {}
    /\ pc = "call_write_pages"
    /\ compute_sequence = <<>>
    /\ constant_usage = 0
    /\ runtime_nodes = <<>>
    /\ inputs = 0
    /\ outputs = 0
    /\ constants = 0
    /\ model_header = NoHeader
    /\ pos = 0
    /\ file = <<>>
    /\ \E v \in HeaderVectors :
          node_headers = v.headers /\ headers_storage = v.storage
    /\ node_headers_pos = 0
    /\ reserved_end = 0
    /\ next_node = 0
    /\ end_pos = 0
    /\ pages = <<>>
    /\ table = NoTable

PageNext == call_write_pages

PageSpec == PageInit /\ [][PageNext]_vars

\* gencode started on sequences of constant nodes with allocations anywhere
\* in the constant pool, overlapping ones included
ConstNext == gencode_begin_constants

ConstSpec == Init /\ [][ConstNext]_vars

----------------------------------------------------------------------------
(* Properties of the page planner *)

PagesWritten == table # NoTable

RECURSIVE SumBodySizes(_, _, _)
\* sum of body_size over the nodes first..last (0-based, inclusive)
SumBodySizes(headers, first, last) ==
    IF first > last THEN 0
    ELSE headers[first + 1].body_size + SumBodySizes(headers, first + 1, last)

PageOf(i) == {k \in 1..Len(pages) : pages[k].begin <= i /\ i <= pages[k].end}

\* C1: when write_pages completes on N >= 1 node headers, its pages partition
\* the node indices 0..N-1: the first page begins at 0, the last ends at N-1,
\* no page is empty, consecutive pages are adjacent, page k has index k and
\* every node index lies in exactly one page.
C1_PagesPartitionNodes ==
    (PagesWritten /\ Len(node_headers) > 0) =>
        LET N == Len(node_headers)
            n == Len(pages)
        IN  /\ n >= 1
            /\ pages[1].begin = 0
            /\ pages[n].end = N - 1
            /\ \A k \in 1..n : pages[k].begin <= pages[k].end
            /\ \A k \in 1..n : pages[k].index = k - 1
            /\ \A k \in 1..(n - 1) : pages[k].end + 1 = pages[k + 1].begin
            /\ \A i \in 0..(N - 1) : Cardinality(PageOf(i)) = 1

C1_Witness ==
    /\ PagesWritten
    /\ Len(pages) >= 3
    /\ \E k \in 1..Len(pages) : pages[k].begin < pages[k].end
    /\ \E k \in 1..Len(pages) : pages[k].begin = pages[k].end

\* C2: in the pages write_pages produces, page 0 is persistent whatever its
\* size and every later page is swap.
C2_OnlyFirstPagePersistent ==
    PagesWritten =>
        /\ pages[1].type = "persistent"
        /\ \A k \in 2..Len(pages) : pages[k].type = "swap"

C2_Witness ==
    /\ PagesWritten
    /\ Len(pages) >= 3
    /\ pages[1].size_bytes > TARGET_PAGE_SIZE
    /\ pages[2].size_bytes < pages[1].size_bytes

\* C3: every page's size_bytes is the sum of the body sizes of the nodes it
\* covers, and it is at most TARGET_PAGE_SIZE unless the page covers exactly
\* one node whose own body_size exceeds TARGET_PAGE_SIZE.
C3_PageSizeWithinTarget ==
    (PagesWritten /\ Len(node_headers) > 0) =>
        \A k \in 1..Len(pages) :
            /\ pages[k].size_bytes
                   = SumBodySizes(node_headers, pages[k].begin, pages[k].end)
            /\ \/ pages[k].size_bytes <= TARGET_PAGE_SIZE
               \/ /\ pages[k].begin = pages[k].end
                  /\ node_headers[pages[k].begin + 1].body_size > TARGET_PAGE_SIZE

C3_Witness ==
    /\ PagesWritten
    /\ \E k \in 1..Len(pages) :
          pages[k].begin = pages[k].end /\ pages[k].size_bytes > TARGET_PAGE_SIZE
    /\ \E k \in 1..Len(pages) :
          pages[k].begin < pages[k].end /\ pages[k].size_bytes = TARGET_PAGE_SIZE

RECURSIVE SumSizes(_)
SumSizes(S) ==
    IF S = {} THEN 0
    ELSE LET k == CHOOSE x \in S : TRUE
         IN  pages[k].size_bytes + SumSizes(S \ {k})

PersistentPages == {k \in 1..Len(pages) : pages[k].type = "persistent"}
SwapPages == {k \in 1..Len(pages) : pages[k].type = "swap"}

LargestSwap ==
    IF SwapPages = {} THEN 0
    ELSE CHOOSE m \in {pages[k].size_bytes : k \in SwapPages} :
             \A k \in SwapPages : pages[k].size_bytes <= m

\* C4: body_buffer_size is the sum of the sizes of the persistent pages plus
\* the largest size of a swap page (0 without swap pages), so the persistent
\* pages together with any one swap page fit in body_buffer_size.
C4_BodyBufferSize ==
    PagesWritten =>
        /\ table.body_buffer_size = SumSizes(PersistentPages) + LargestSwap
        /\ \A k \in SwapPages :
              SumSizes(PersistentPages) + pages[k].size_bytes
                  <= table.body_buffer_size

C4_Witness ==
    /\ PagesWritten
    /\ Cardinality(SwapPages) >= 3
    /\ \E k \in SwapPages : pages[k].size_bytes < LargestSwap
    /\ pages[Len(pages)].size_bytes < LargestSwap

PageWrites == {i \in 1..Len(file) : file[i].what \in {"page_table", "page"}}

\* C5: more than KM_MAX_PAGES pages make write_pages fail its assertion
\* before the page table or any page is written, so a page table that is
\* written has num_pages <= max_pages = KM_MAX_PAGES.
C5_TooManyPagesRejected ==
    /\ Len(pages) > KM_MAX_PAGES =>
          (pc = "assert_failed" /\ ~PagesWritten /\ PageWrites = {})
    /\ PagesWritten =>
          /\ table.num_pages = Len(pages)
          /\ table.num_pages <= table.max_pages
          /\ table.max_pages = KM_MAX_PAGES
          /\ Cardinality(PageWrites) = 1 + table.num_pages

C5_Witness ==
    /\ pc = "assert_failed"
    /\ Len(pages) > KM_MAX_PAGES
    /\ Len(node_headers) >= Len(pages)
    /\ file = <<>>

----------------------------------------------------------------------------
(* Properties of gencode *)

IsBody(w) == w.what = "body"
Bodies == SelectSeq(file, IsBody)

Overlap(a, alen, b, blen) == alen > 0 /\ blen > 0 /\ a < b + blen /\ b < a + alen

\* C6: the page table and the page entries are written into space reserved
\* for them: no byte written by write_pages falls inside the bytes of a node
\* body.
C6_PagesDoNotOverwriteBodies ==
    \A i \in PageWrites : \A k \in 1..Len(Bodies) :
        ~Overlap(file[i].at, file[i].len, Bodies[k].at, Bodies[k].len)

\* C7: every node body starts at a file offset that is a multiple of 8, the
\* first body included.
C7_BodiesStartAligned ==
    \A k \in 1..Len(Bodies) : Bodies[k].at % 8 = 0

BodyLoopDone ==
    pc \in {"pages", "finish", "done", "assert_failed", "segfault", "bounds_abort"}

NotDisabled(node) == node.op \notin g_disabled_emitters
KeptNodes == SelectSeq(compute_sequence, NotDisabled)

\* where the first body starts when gencode serializes the sequence seq
FirstBodyStart(seq, cu) ==
    SizeofModelHeader
    + CountOp(seq, "op_input_node") * (SizeofMemoryRange + SizeofRuntimeShape)
    + CountOp(seq, "op_output_node") * SizeofMemoryRange
    + cu + SizeofNodeHeader * Len(seq) + page_bytes_of(model_header.flags)

RECURSIVE HeadersFrom(_, _)
\* the headers of the bodies of the nodes seq written one after the other
\* from position start on, each padded to the next multiple of 8
HeadersFrom(seq, start) ==
    IF seq = <<>> THEN <<>>
    ELSE LET after == align_position(start + Head(seq).raw, 8)
         IN  <<[opcode |-> Head(seq).op, body_size |-> after - start]>>
             \o HeadersFrom(Tail(seq), after)

\* C8: nodes of a disabled opcode get no header and no body and are not
\* counted in model_header.nodes; the headers and bodies of the other nodes
\* are those of the sequence without the disabled nodes, in the same order.
C8_DisabledNodesLeftOut ==
    BodyLoopDone =>
        /\ \A k \in 1..Len(node_headers) :
              node_headers[k].opcode \notin g_disabled_emitters
        /\ \A k \in 1..Len(Bodies) : Bodies[k].item \notin g_disabled_emitters
        /\ model_header.nodes = Len(KeptNodes)
        /\ node_headers
               = HeadersFrom(KeptNodes, FirstBodyStart(KeptNodes, constant_usage))
        /\ Len(Bodies) = Len(KeptNodes)
        /\ \A k \in 1..Len(Bodies) :
              /\ Bodies[k].item = KeptNodes[k].op
              /\ Bodies[k].len = KeptNodes[k].raw

C8_Witness ==
    /\ pc = "done"
    /\ \E i \in 1..Len(compute_sequence) :
          /\ compute_sequence[i].op \in g_disabled_emitters
          /\ compute_sequence[i].op \in g_emitters
          /\ i < Len(compute_sequence)
    /\ Len(node_headers) >= 1

Unregistered(node) ==
    node.op \notin g_emitters /\ node.op \notin g_disabled_emitters

UnregisteredAt == {i \in 1..Len(runtime_nodes) : Unregistered(runtime_nodes[i])}

FirstUnregistered == CHOOSE i \in UnregisteredAt : \A j \in UnregisteredAt : i <= j

\* C9: when the sequence holds a node whose opcode is neither registered nor
\* disabled, gencode never passes that node: it stops there with an error,
\* and neither the node headers nor the page table are written.
C9_UnregisteredOpcodeAborts ==
    (pc # "idle"
     /\ \E i \in 1..Len(compute_sequence) : Unregistered(compute_sequence[i])) =>
        /\ UnregisteredAt # {}
        /\ pc \in {"reserve", "body", "emitter_not_found"}
        /\ next_node <= FirstUnregistered - 1
        /\ pc = "emitter_not_found" => next_node = FirstUnregistered - 1
        /\ Len(node_headers) <= FirstUnregistered - 1
        /\ \A i \in 1..Len(file) :
              file[i].what \notin {"node_headers", "page_table", "page"}

C9_Witness ==
    /\ pc = "emitter_not_found"
    /\ Len(node_headers) >= 1
    /\ g_disabled_emitters # {}

HeaderWrites == {i \in 1..Len(file) : file[i].what = "node_headers"}

EndOfBodies == IF pc \in {"body", "emitter_not_found"} THEN pos ELSE end_pos

\* C10: gencode appends one node header per body written, in the order of
\* the bodies; a header's body_size is the distance from the start of its
\* body to the position after the padding to a multiple of 8, so each body
\* starts body_size bytes after the one before; and the number of headers
\* written equals model_header.nodes.
C10_OneHeaderPerBody ==
    (pc \in {"body", "emitter_not_found"} \/ BodyLoopDone) =>
        LET n == Len(node_headers) IN
        /\ n = Len(Bodies)
        /\ \A k \in 1..n :
              /\ node_headers[k].opcode = Bodies[k].item
              /\ node_headers[k].body_size
                     = align_position(Bodies[k].at + Bodies[k].len, 8) - Bodies[k].at
        /\ \A k \in 1..(n - 1) :
              Bodies[k + 1].at = Bodies[k].at + node_headers[k].body_size
        /\ n > 0 => Bodies[n].at + node_headers[n].body_size = EndOfBodies
        /\ BodyLoopDone =>
              /\ Cardinality(HeaderWrites) = 1
              /\ \A i \in HeaderWrites :
                    /\ Len(file[i].item) = n
                    /\ Len(file[i].item) = model_header.nodes

C10_Witness ==
    /\ pc = "done"
    /\ Len(node_headers) >= 2
    /\ node_headers[1].body_size # Bodies[1].len
    /\ Len(compute_sequence) > Len(node_headers)

----------------------------------------------------------------------------
(* Reading the file back in the documented layout *)

\* the writes whose bytes a read of len bytes at offset p returns: a write of
\* exactly these bytes that no later write has touched
LastWriteAt(p, len) ==
    {i \in 1..Len(file) :
        /\ file[i].at = p
        /\ file[i].len = len
        /\ \A j \in (i + 1)..Len(file) :
              ~Overlap(p, len, file[j].at, file[j].len)}

\* a read of len bytes at p as a record (or array) of kind what yields value;
\* an array without entries reads as nothing
ReadsBack(what, p, len, value) ==
    \/ len = 0
    \/ \E i \in LastWriteAt(p, len) : file[i].what = what /\ file[i].item = value

\* the offsets of the sections of a file whose model header is h
InputsAt(h) == SizeofModelHeader
InputShapesAt(h) == InputsAt(h) + h.inputs * SizeofMemoryRange
OutputsAt(h) == InputShapesAt(h) + h.inputs * SizeofRuntimeShape
ConstantsAt(h) == OutputsAt(h) + h.outputs * SizeofMemoryRange
NodeHeadersAt(h) == ConstantsAt(h) + h.constants
PageTableAt(h) == NodeHeadersAt(h) + h.nodes * SizeofNodeHeader
PageAt(h, k) == PageTableAt(h) + SizeofMemoryPageTable + (k - 1) * SizeofMemoryPage

\* C11: after gencode completes, reading the file in the layout order (model
\* header, input ranges, input shapes, output ranges, constant pool, node
\* headers, then with the paging flag set the page table and its pages)
\* yields the counts, tables, node headers, page table and pages gencode
\* computed.
C11_RoundTrip ==
    pc = "done" =>
        /\ ReadsBack("model_header", 0, SizeofModelHeader, model_header)
        /\ model_header.nodes = Len(runtime_nodes)
        /\ model_header.inputs = CountOp(compute_sequence, "op_input_node")
        /\ model_header.outputs = CountOp(compute_sequence, "op_output_node")
        /\ model_header.constants = constant_usage
        /\ LET h == model_header IN
           /\ ReadsBack("inputs", InputsAt(h), h.inputs * SizeofMemoryRange, inputs)
           /\ ReadsBack("input_shapes", InputShapesAt(h),
                        h.inputs * SizeofRuntimeShape, inputs)
           /\ ReadsBack("outputs", OutputsAt(h), h.outputs * SizeofMemoryRange,
                        outputs)
           /\ \E i \in LastWriteAt(ConstantsAt(h), h.constants) :
                 file[i].what = "constants" /\ Len(file[i].item) = h.constants
           /\ Len(node_headers) = h.nodes
           /\ ReadsBack("node_headers", NodeHeadersAt(h),
                        h.nodes * SizeofNodeHeader, node_headers)
           /\ BitAnd(h.flags, KM_ENABLE_PAGING) # 0
           /\ ReadsBack("page_table", PageTableAt(h), SizeofMemoryPageTable, table)
           /\ table.num_pages = Len(pages)
           /\ \A k \in 1..table.num_pages :
                 ReadsBack("page", PageAt(h, k), SizeofMemoryPage, pages[k])

C11_Witness ==
    /\ pc = "done"
    /\ model_header.inputs >= 1
    /\ Len(node_headers) >= 2
    /\ Len(pages) >= 2

----------------------------------------------------------------------------
(* Further properties of the page planner *)

TenNodes == [k \in 1..10 |-> [opcode |-> "op_conv2d", body_size |-> 1000000]]

\* C12: for 10 node headers of body_size 1,000,000 each, write_pages yields
\* exactly 5 pages of two consecutive nodes and 2,000,000 bytes each, page 0
\* persistent and pages 1..4 swap, and body_buffer_size 4,000,000.
C12_TenNodesExample ==
    (PagesWritten /\ node_headers = TenNodes) =>
        /\ Len(pages) = 5
        /\ table.num_pages = 5
        /\ \A k \in 1..5 :
              /\ pages[k].index = k - 1
              /\ pages[k].begin = 2 * (k - 1)
              /\ pages[k].end = 2 * (k - 1) + 1
              /\ pages[k].size_bytes = 2000000
              /\ pages[k].type = IF k = 1 THEN "persistent" ELSE "swap"
        /\ table.body_buffer_size = 4000000

C12_Witness ==
    /\ pc = "returned"
    /\ node_headers = TenNodes
    /\ Len(file) = 6

\* C13: a page's offset_bytes is the sum of the body sizes of the nodes
\* before its first node: 0 for page 0, and the offset plus the size of the
\* page before for the others; in the file gencode writes it is the distance
\* from the start of the first node body to the start of the body of the
\* page's first node.
C13_PageOffsets ==
    (PagesWritten /\ Len(node_headers) > 0) =>
        /\ pages[1].offset_bytes = 0
        /\ \A k \in 1..Len(pages) :
              pages[k].offset_bytes
                  = SumBodySizes(node_headers, 0, pages[k].begin - 1)
        /\ \A k \in 1..(Len(pages) - 1) :
              pages[k + 1].offset_bytes
                  = pages[k].offset_bytes + pages[k].size_bytes
        /\ Len(Bodies) = Len(node_headers) =>
              \A k \in 1..Len(pages) :
                  pages[k].offset_bytes
                      = Bodies[pages[k].begin + 1].at - Bodies[1].at

C13_Witness ==
    /\ pc = "done"
    /\ Len(pages) >= 2
    /\ pages[2].begin >= 2
    /\ Len(Bodies) = Len(node_headers)
    /\ Bodies[1].at % 8 # 0

\* a page of the nodes first..last is allowed when it is a single node or its
\* total size is within the target
AllowedPage(headers, first, last) ==
    first = last \/ SumBodySizes(headers, first, last) <= TARGET_PAGE_SIZE

Least(S) == CHOOSE x \in S : \A y \in S : x <= y

RECURSIVE MinPagesFrom(_, _, _)
\* best[j] is the least number of allowed pages that partition the nodes
\* j..N-1, known for j > i; the result is best[0]
MinPagesFrom(headers, i, best) ==
    IF i < 0 THEN best[0]
    ELSE LET ends == {j \in i..(Len(headers) - 1) : AllowedPage(headers, i, j)}
             least == Least({1 + best[j + 1] : j \in ends})
         IN  MinPagesFrom(headers, i - 1, (i :> least) @@ best)

MinPages(headers) ==
    MinPagesFrom(headers, Len(headers) - 1, (Len(headers) :> 0))

\* C17: the greedy pass yields the least number of pages of any partition of
\* the nodes into contiguous pages in which every page of more than one node
\* is within TARGET_PAGE_SIZE, so write_pages rejects a sequence exactly when
\* no such partition has at most KM_MAX_PAGES pages.
C17_GreedyIsMinimal ==
    (pc \in {"returned", "assert_failed"} /\ Len(node_headers) > 0) =>
        /\ Len(pages) = MinPages(node_headers)
        /\ pc = "assert_failed" <=> MinPages(node_headers) > KM_MAX_PAGES

C17_Witness ==
    /\ pc = "assert_failed"
    /\ MinPages(node_headers) > KM_MAX_PAGES
    /\ Len(node_headers) > Len(pages)

----------------------------------------------------------------------------
(* Further properties of gencode *)

ConstantWrites == {i \in 1..Len(file) : file[i].what = "constants"}

ConstantNodesWritten == SelectSeq(compute_sequence, IsConstant)

\* no two constant nodes have allocations that share a byte
AllocationsDisjoint ==
    \A a, b \in 1..Len(ConstantNodesWritten) :
        a # b => ~Overlap(ConstantNodesWritten[a].start,
                          Len(ConstantNodesWritten[a].data),
                          ConstantNodesWritten[b].start,
                          Len(ConstantNodesWritten[b].data))

\* C14: the constant pool gencode writes is as long as the constant usage in
\* the model header and, when the allocations of the constant nodes do not
\* overlap, holds each constant node's data at the node's allocation offset.
C14_ConstantPool ==
    pc \in {"reserve", "body", "pages", "finish", "done", "emitter_not_found",
            "segfault", "bounds_abort"} =>
        /\ Cardinality(ConstantWrites) = 1
        /\ \A i \in ConstantWrites :
              /\ file[i].len = model_header.constants
              /\ Len(file[i].item) = model_header.constants
              /\ model_header.constants = constant_usage
              /\ AllocationsDisjoint =>
                    \A c \in 1..Len(ConstantNodesWritten) :
                        LET node == ConstantNodesWritten[c] IN
                        SubSeq(file[i].item, node.start + 1,
                               node.start + Len(node.data)) = node.data

C14_Witness ==
    /\ pc = "reserve"
    /\ Len(ConstantNodesWritten) >= 2
    /\ AllocationsDisjoint
    /\ \E c \in 1..Len(ConstantNodesWritten) :
          ConstantNodesWritten[c].start > 0 /\ Len(ConstantNodesWritten[c].data) = 2
    /\ \E i \in ConstantWrites : \E k \in 1..Len(file[i].item) : file[i].item[k] = 0

\* C15: gencode writes all node bodies, then the node headers at the
\* position it reserved and within the space reserved for them, then the
\* page table; when it returns the writer is at the end of the bodies.
C15_WriteOrder ==
    /\ \A i, j \in 1..Len(file) :
          (file[i].what = "body"
           /\ file[j].what \in {"node_headers", "page_table", "page"}) => i < j
    /\ \A i \in HeaderWrites : \A j \in PageWrites : i < j
    /\ \A i \in HeaderWrites :
          /\ file[i].at = node_headers_pos
          /\ file[i].at + file[i].len
                 <= node_headers_pos + SizeofNodeHeader * Len(runtime_nodes)
    /\ pc = "done" =>
          /\ HeaderWrites # {}
          /\ PageWrites # {}
          /\ pos = end_pos
          /\ Len(Bodies) >= 1
          /\ pos = Bodies[Len(Bodies)].at + node_headers[Len(Bodies)].body_size

C15_Witness ==
    /\ pc = "done"
    /\ Len(Bodies) >= 2
    /\ Cardinality(PageWrites) >= 3
    /\ pos > reserved_end

\* C16: whenever gencode calls write_pages the node-header list is not empty,
\* so headers[0] exists, also for a sequence without runtime-emittable nodes.
C16_WritePagesGetsHeaders ==
    (pc = "pages" /\ BitAnd(model_header.flags, KM_NODE_PAGING) # 0) =>
        Len(node_headers) > 0

====
